---- MODULE Spec2Model ----
(***************************************************************************)
(* Model of the PDF ingestion pipeline of src/src/processor.py:            *)
(*   read_pdf_file, preprocess_content, read_pdfs_concurrently,            *)
(*   extract_images_from_pdf, process_pdfs, of save_output of              *)
(*   src/src/utils/pdf_utils.py, of the readers of                         *)
(*   src/src/utils/file_utils.py and of clean_text of src/src/main.py.     *)
(*                                                                         *)
(* Text is a sequence of one-character strings, a path is a sequence of    *)
(* path components.  The specifications share the definitions:             *)
(*   Spec            one run of process_pdfs (discovery, concurrent read,  *)
(*                   aggregation, persistence);                            *)
(*   ScenarioSpec    the same run on the fixed batch A, B, C;              *)
(*   IngestSpec      one direct call of read_pdfs_concurrently with any    *)
(*                   max_workers and any (possibly repeating) path list;   *)
(*   IngestFairSpec  the same call under weak fairness of its steps;       *)
(*   HangFairSpec    the same call when the read of one document hangs;    *)
(*   PipelineSpec    either entry point;                                   *)
(*   ReaderSpec      one call of read_pdf_file on one document;            *)
(*   ReadersSpec     the same for either reader of the repository          *)
(*                   (processor.read_pdf_file, file_utils.read_pdf_file);  *)
(*   ValidatorSpec   one call of preprocess_content and a second call on   *)
(*                   what it returned;                                     *)
(*   FileUtilsIngestSpec  one direct call of                               *)
(*                   utils.file_utils.read_pdfs_concurrently;              *)
(*   IngestsSpec     a direct call of either read_pdfs_concurrently;       *)
(*   PatchedSpec     one run of process_pdfs whose read stage is replaced  *)
(*                   by a callable that returns a list or raises;          *)
(*   CleanerSpec     one call of main.clean_text and a second call on what *)
(*                   it returned.                                          *)
(* The log keeps WARNING and ERROR lines and the INFO lines that report an *)
(* extracted record or a saved output; extracted_at timestamps are left    *)
(* out of the records.                                                     *)
(***************************************************************************)
EXTENDS Integers, Sequences, FiniteSets, TLC

VARIABLES
    entry,         \* which function was called, e.g. "process_pdfs", "read_pdfs_concurrently", "clean_text"
    pc,            \* position of the calling (main) thread
    exc,           \* exception type the entry function raised to its caller ("" = none)
    disk,          \* pdf_directory on disk: whether it exists and its .pdf files in walk order
    pdf_files,     \* the list of paths handed to read_pdfs_concurrently
    max_workers,   \* the max_workers argument of read_pdfs_concurrently
    submitted,     \* number of executor.submit calls made so far
    fut,           \* the futures: index of the submit call -> state and result
    order,         \* indexes of the futures as_completed has yielded, in yield order
    pdf_contents,  \* the result list of read_pdfs_concurrently
    agg_k,         \* number of items of pdf_contents the aggregation loop has handled
    all_data,      \* the records process_pdfs has built
    mkdir_done,    \* whether process_pdfs created the output directory
    out_file,      \* state of the destination file
    save_calls,    \* number of save_output invocations
    log,           \* the log sink: set of [level, msg, arg]
    rd_doc,        \* ReaderSpec: the document read_pdf_file is applied to
    rd_res,        \* ReaderSpec: what read_pdf_file did
    val_in,        \* ValidatorSpec: the content preprocess_content is applied to
    val_res,       \* ValidatorSpec: what preprocess_content did with val_in
    val_again,     \* ValidatorSpec: what preprocess_content did with the content it returned
    hung,          \* index of the future whose read never completes (0 = every read completes)
    cl_in,         \* CleanerSpec: the content clean_text is applied to
    cl_res,        \* CleanerSpec: what clean_text returned for cl_in
    cl_again,      \* CleanerSpec: what clean_text returned for its own result
    stage_exc      \* exception type a patched read stage raised to process_pdfs ("" = none)

ingestVars == <<pdf_files, max_workers, submitted, fut, order, pdf_contents>>
aggVars == <<agg_k, all_data, mkdir_done, out_file, save_calls>>
rdVars == <<rd_doc, rd_res>>
valVars == <<val_in, val_res, val_again>>
clVars == <<cl_in, cl_res, cl_again>>
vars == <<entry, pc, exc, disk, ingestVars, aggVars, log, rdVars, valVars, hung, clVars, stage_exc>>

(***************************************************************************)
(* Bounds of the model.                                                    *)
(***************************************************************************)
MaxFiles == 3
MaxPages == 2
MaxPad == 2

(***************************************************************************)
(* Text: str.strip, " ".join, the `in` substring test.                     *)
(***************************************************************************)
Whitespace == {" ", "\n", "\t"}

RECURSIVE LStrip(_)
LStrip(s) == IF s # <<>> /\ Head(s) \in Whitespace THEN LStrip(Tail(s)) ELSE s

RECURSIVE RStrip(_)
RStrip(s) ==
    IF s # <<>> /\ s[Len(s)] \in Whitespace THEN RStrip(SubSeq(s, 1, Len(s) - 1)) ELSE s

\* a strip that removes at most one whitespace character at each end
Strip_single(s) ==
    LET l == IF s # <<>> /\ Head(s) \in Whitespace THEN Tail(s) ELSE s
    IN IF l # <<>> /\ l[Len(l)] \in Whitespace THEN SubSeq(l, 1, Len(l) - 1) ELSE l
\* str.strip(): leading and trailing whitespace removed
Strip(s) == RStrip(LStrip(s))

RECURSIVE JoinSpace(_)
\* " ".join(parts)
JoinSpace(parts) ==
    IF parts = <<>> THEN <<>>
    ELSE IF Len(parts) = 1 THEN parts[1]
    ELSE parts[1] \o <<" ">> \o JoinSpace(Tail(parts))

\* needle in s
Contains(s, needle) ==
    \E i \in 1..(Len(s) - Len(needle) + 1) : SubSeq(s, i, i + Len(needle) - 1) = needle

\* the literal "expected_keyword" of preprocess_content
ExpectedKeyword ==
    <<"e", "x", "p", "e", "c", "t", "e", "d", "_", "k", "e", "y", "w", "o", "r", "d">>

HelloWorld == <<"H", "e", "l", "l", "o", " ", "w", "o", "r", "l", "d">>

(***************************************************************************)
(* Python values.  A content is None or a str; a page's extract_text() is  *)
(* None or a str.                                                          *)
(***************************************************************************)
NoneVal == [isNone |-> TRUE, text |-> <<>>]
Str(t) == [isNone |-> FALSE, text |-> t]
\* Python truthiness of a content value: None and "" are falsy
Truthy(c) == ~c.isNone /\ c.text # <<>>

\* the name of the parent directory instead of the file's own name
PathName_parent(p) == IF Len(p) < 2 THEN "" ELSE p[Len(p) - 1]
\* Path(pdf_file).name: the last component of the path
PathName(p) == IF p = <<>> THEN "" ELSE p[Len(p)]

(***************************************************************************)
(* Documents as the reader meets them: either opening or parsing raises    *)
(* (fail names the exception type) or the document has pages.              *)
(***************************************************************************)
PagesDoc(pages) == [fail |-> "", pages |-> pages]
FailDoc(e) == [fail |-> e, pages |-> <<>>]

\* exception types that are subclasses of Exception
ExceptionTypes ==
    {"PdfReadError", "MemoryError", "FileNotFoundError", "PermissionError", "ValueError"}

\* what a call ends with: a returned str or a raised exception type
Returned(t) == [kind |-> "return", text |-> t, exc |-> "", logmsg |-> ""]
Raised(e, m) == [kind |-> "raise", text |-> <<>>, exc |-> e, logmsg |-> m]

\* page.extract_text() or ''
PageText(page) == IF page.isNone THEN <<>> ELSE page.text

\* a reader whose last handler (except Exception) is missing: other failures escape
read_pdf_file_no_generic_handler(doc) ==
    IF doc.fail = ""
    THEN Returned(Strip(JoinSpace([j \in 1..Len(doc.pages) |-> PageText(doc.pages[j])])))
    ELSE IF doc.fail = "PdfReadError"
    THEN Raised("PDFProcessingError", "Malformed PDF file")
    ELSE IF doc.fail = "MemoryError"
    THEN Raised("PDFProcessingError", "Memory error while processing PDF file")
    ELSE Raised(doc.fail, "")

\* a reader that joins the page texts without the final strip()
read_pdf_file_no_strip(doc) ==
    IF doc.fail = ""
    THEN Returned(JoinSpace([j \in 1..Len(doc.pages) |-> PageText(doc.pages[j])]))
    ELSE IF doc.fail = "PdfReadError"
    THEN Raised("PDFProcessingError", "Malformed PDF file")
    ELSE IF doc.fail = "MemoryError"
    THEN Raised("PDFProcessingError", "Memory error while processing PDF file")
    ELSE IF doc.fail \in ExceptionTypes
    THEN Raised("PDFProcessingError", "Error processing PDF file")
    ELSE Raised(doc.fail, "")

\* processor.read_pdf_file
read_pdf_file(doc) ==
    IF doc.fail = ""
    THEN Returned(Strip(JoinSpace([j \in 1..Len(doc.pages) |-> PageText(doc.pages[j])])))
    ELSE IF doc.fail = "PdfReadError"
    THEN Raised("PDFProcessingError", "Malformed PDF file")
    ELSE IF doc.fail = "MemoryError"
    THEN Raised("PDFProcessingError", "Memory error while processing PDF file")
    ELSE IF doc.fail \in ExceptionTypes
    THEN Raised("PDFProcessingError", "Error processing PDF file")
    ELSE Raised(doc.fail, "")

(***************************************************************************)
(* The inputs of the model.                                                *)
(***************************************************************************)
PathA == <<"in", "a", "x.pdf">>
PathB == <<"in", "b", "x.pdf">>
PathC == <<"in", "a", "y.pdf">>
Paths == {PathA, PathB, PathC}
\* the paths of a direct call of read_pdfs_concurrently, which may repeat
IngestPaths == {PathA, PathC}

\* max_workers=4: the default of read_pdfs_concurrently and what process_pdfs passes
DefaultMaxWorkers == 4
\* the max_workers values a direct caller of read_pdfs_concurrently passes
ConcurrencySettings == {-1, 0, 1, 2, DefaultMaxWorkers, 8}

DocHello == PagesDoc(<<Str(HelloWorld)>>)
DocKeyword == PagesDoc(<<Str(<<" ">> \o ExpectedKeyword), Str(<<"o", "k", "\n">>)>>)
DocEmpty == PagesDoc(<<NoneVal>>)
\* two pages of whitespace only
DocBlank == PagesDoc(<<Str(<<" ">>), Str(<<"\n">>)>>)
\* what the read of one file of a batch may meet
BatchDocs ==
    {DocHello, DocKeyword, DocEmpty, DocBlank, FailDoc("PdfReadError"), FailDoc("FileNotFoundError")}
\* the same for a direct call: a text, the empty text, a failure
IngestDocs == {DocKeyword, DocEmpty, FailDoc("PdfReadError")}

SeqsUpTo(S, n) == UNION {[1..m -> S] : m \in 0..n}
Range(f) == {f[i] : i \in DOMAIN f}
Injective(f) == \A i, j \in DOMAIN f : f[i] = f[j] => i = j

(***************************************************************************)
(* The log sink.                                                           *)
(***************************************************************************)
LogEntry(level, msg, arg) == [level |-> level, msg |-> msg, arg |-> arg]

(***************************************************************************)
(* read_pdfs_concurrently: ThreadPoolExecutor, submit, as_completed.       *)
(***************************************************************************)
NoRes == [kind |-> "none", text |-> <<>>, exc |-> "", logmsg |-> ""]
NewFuture == [st |-> "new", res |-> NoRes]
N == Len(pdf_files)
Queued == {i \in DOMAIN fut : fut[i].st = "queued"}
Running == {i \in DOMAIN fut : fut[i].st = "running"}
Done == {i \in DOMAIN fut : fut[i].st = "done"}
Min(S) == CHOOSE x \in S : \A y \in S : x <= y

\* a lookup that always answers the last submitted path
future_to_pdf_last(i) == pdf_files[Len(pdf_files)]
\* future_to_pdf[future]: the path the future was submitted with
future_to_pdf(i) == pdf_files[i]

\* a collect loop that stops at the first completed future
first_yielded == order # <<>> \/ DOMAIN fut = {}
\* as_completed is exhausted: every submitted future has been yielded
all_yielded == Range(order) = DOMAIN fut

\* except Exception: the exception types the handler in the collect loop catches
CaughtByExceptException(e) == e \in ExceptionTypes \cup {"PDFProcessingError"}

\* a collect loop that appends only on success
collect_entries_drop_failed(pdf_file, res) ==
    IF res.kind = "return"
    THEN <<[file_name |-> pdf_file, content |-> Str(res.text)]>>
    ELSE <<>>

\* a collect loop that records a failure as empty text
collect_entries_empty_on_error(pdf_file, res) ==
    IF res.kind = "return"
    THEN <<[file_name |-> pdf_file, content |-> Str(res.text)]>>
    ELSE <<[file_name |-> pdf_file, content |-> Str(<<>>)]>>

\* a collect loop that stores `content or None`: an empty text becomes None
collect_entries_none_on_empty(pdf_file, res) ==
    IF res.kind = "return" /\ res.text # <<>>
    THEN <<[file_name |-> pdf_file, content |-> Str(res.text)]>>
    ELSE IF res.kind = "return" \/ CaughtByExceptException(res.exc)
    THEN <<[file_name |-> pdf_file, content |-> NoneVal]>>
    ELSE <<>>

\* the append of the collect loop: one entry for a returned text, one with
\* content None for a caught exception, none when the exception propagates
collect_entries(pdf_file, res) ==
    IF res.kind = "return"
    THEN <<[file_name |-> pdf_file, content |-> Str(res.text)]>>
    ELSE IF CaughtByExceptException(res.exc)
    THEN <<[file_name |-> pdf_file, content |-> NoneVal]>>
    ELSE <<>>

\* a collect loop without the try/except around future.result()
collect_propagates_unhandled(res) == IF res.kind = "raise" THEN res.exc ELSE ""

\* a collect loop whose handler does not catch PDFProcessingError
collect_propagates_pdf_errors(res) ==
    IF res.kind = "raise" /\ (res.exc = "PDFProcessingError" \/ ~CaughtByExceptException(res.exc))
    THEN res.exc
    ELSE ""

\* the exception that leaves the collect loop for a yielded future ("" = none)
collect_propagates(res) ==
    IF res.kind = "raise" /\ ~CaughtByExceptException(res.exc) THEN res.exc ELSE ""

\* an executor that accepts any max_workers
Executor_init_unchecked ==
    /\ pc = "call_ingest"
    /\ pc' = IF N = 0 THEN "collect" ELSE "submit"
    /\ fut' = [i \in 1..N |-> NewFuture]
    /\ UNCHANGED <<entry, exc, disk, pdf_files, max_workers, submitted, order, pdf_contents,
                   aggVars, log, rdVars, valVars, hung, clVars, stage_exc>>

\* ThreadPoolExecutor(max_workers=max_workers): ValueError unless max_workers > 0
Executor_init ==
    /\ pc = "call_ingest"
    /\ IF max_workers <= 0
       THEN /\ pc' = "unwind"
            /\ exc' = "ValueError"
            /\ fut' = fut
       ELSE /\ pc' = IF N = 0 THEN "collect" ELSE "submit"
            /\ exc' = exc
            /\ fut' = [i \in 1..N |-> NewFuture]
    /\ UNCHANGED <<entry, disk, pdf_files, max_workers, submitted, order, pdf_contents,
                   aggVars, log, rdVars, valVars, hung, clVars, stage_exc>>

\* executor.submit(read_pdf_file, pdf_file), in list order
Submit ==
    /\ pc = "submit"
    /\ submitted < N
    /\ submitted' = submitted + 1
    /\ fut' = [fut EXCEPT ![submitted + 1].st = "queued"]
    /\ pc' = IF submitted + 1 = N THEN "collect" ELSE "submit"
    /\ UNCHANGED <<entry, exc, disk, pdf_files, max_workers, order, pdf_contents,
                   aggVars, log, rdVars, valVars, hung, clVars, stage_exc>>

\* a pool that runs one work item at a time, whatever max_workers is
worker_available_serial == Cardinality(Running) < 1
\* a pool that starts a thread per work item, whatever max_workers is
worker_available_unbounded == TRUE
\* whether a worker thread is free to take the next work item
worker_available == Cardinality(Running) < max_workers

\* a worker thread takes the oldest queued work item
WorkerStart ==
    /\ pc \in {"submit", "collect", "unwind"}
    /\ Queued # {}
    /\ worker_available
    /\ fut' = [fut EXCEPT ![Min(Queued)].st = "running"]
    /\ UNCHANGED <<entry, pc, exc, disk, pdf_files, max_workers, submitted, order,
                   pdf_contents, aggVars, log, rdVars, valVars, hung, clVars, stage_exc>>

\* a worker that appends what it read to the shared result list itself
WorkerFinish_appends(i, doc) ==
    /\ i \in Running
    /\ i # hung
    /\ LET res == read_pdf_file(doc) IN
        /\ fut' = [fut EXCEPT ![i] = [st |-> "done", res |-> res]]
        /\ pdf_contents' = pdf_contents \o collect_entries(future_to_pdf(i), res)
        /\ log' = IF res.logmsg # "" THEN log \cup {LogEntry("ERROR", res.logmsg, i)} ELSE log
    /\ UNCHANGED <<entry, pc, exc, disk, pdf_files, max_workers, submitted, order,
                   aggVars, rdVars, valVars, hung, clVars, stage_exc>>

\* the worker's read_pdf_file(pdf_file) ends: the future holds its result
\* (a read that hangs in the parser never gets here)
WorkerFinish(i, doc) ==
    /\ i \in Running
    /\ i # hung
    /\ LET res == read_pdf_file(doc) IN
        /\ fut' = [fut EXCEPT ![i] = [st |-> "done", res |-> res]]
        /\ log' = IF res.logmsg # "" THEN log \cup {LogEntry("ERROR", res.logmsg, i)} ELSE log
    /\ UNCHANGED <<entry, pc, exc, disk, pdf_files, max_workers, submitted, order,
                   pdf_contents, aggVars, rdVars, valVars, hung, clVars, stage_exc>>

\* as_completed yields a finished future; the loop body handles it
AsCompleted(i) ==
    /\ pc = "collect"
    /\ i \in Done
    /\ i \notin Range(order)
    /\ LET res == fut[i].res IN
        /\ order' = Append(order, i)
        /\ pdf_contents' = pdf_contents \o collect_entries(future_to_pdf(i), res)
        /\ log' = IF res.kind = "raise" /\ collect_propagates(res) = ""
                  THEN log \cup {LogEntry("ERROR", "Error reading PDF file", i)}
                  ELSE log
        /\ exc' = collect_propagates(res)
        /\ pc' = IF collect_propagates(res) = "" THEN "collect" ELSE "unwind"
    /\ UNCHANGED <<entry, disk, pdf_files, max_workers, submitted, fut, aggVars, rdVars, valVars, hung, clVars, stage_exc>>

\* the with block ends: shutdown(wait=True) joins the workers, then the call
\* returns pdf_contents or lets the pending exception out
ExecutorExit ==
    /\ \/ pc = "collect" /\ all_yielded
       \/ pc = "unwind"
    /\ Queued \cup Running = {}
    /\ IF entry \in {"read_pdfs_concurrently", "file_utils.read_pdfs_concurrently"}
       THEN /\ pc' = IF pc = "unwind" THEN "raised" ELSE "returned"
            /\ UNCHANGED <<exc, log>>
       ELSE IF pc = "collect"
       THEN /\ pc' = "mkdir"
            /\ UNCHANGED <<exc, log>>
       ELSE IF exc = "PDFProcessingError"
       THEN \* except PDFProcessingError as e: logger.error(... e.message ...)
            \* PDFProcessingError defines no attribute message
            /\ pc' = "raised"
            /\ exc' = "AttributeError"
            /\ log' = log
       ELSE /\ pc' = "raised"
            /\ exc' = "PDFProcessingError"
            /\ log' = log \cup {LogEntry("ERROR", "Error reading PDFs", 0)}
    /\ UNCHANGED <<entry, disk, ingestVars, aggVars, rdVars, valVars, hung, clVars, stage_exc>>

IngestNext ==
    \/ Executor_init
    \/ Submit
    \/ WorkerStart
    \/ \E i \in DOMAIN fut, doc \in IngestDocs : WorkerFinish(i, doc)
    \/ \E i \in DOMAIN fut : AsCompleted(i)
    \/ ExecutorExit

IdleAgg ==
    /\ agg_k = 0
    /\ all_data = <<>>
    /\ mkdir_done = FALSE
    /\ save_calls = 0
IdleReader ==
    /\ rd_doc = FailDoc("")
    /\ rd_res = NoRes
IdleValidator ==
    /\ val_in = NoneVal
    /\ val_res = NoRes
    /\ val_again = NoRes

IdleCleaner ==
    /\ cl_in = <<>>
    /\ cl_res = NoRes
    /\ cl_again = NoRes

IngestInit ==
    /\ entry = "read_pdfs_concurrently"
    /\ pc = "call_ingest"
    /\ exc = ""
    /\ disk = [exists |-> FALSE, files |-> <<>>]
    /\ pdf_files \in SeqsUpTo(IngestPaths, MaxFiles)
    /\ max_workers \in ConcurrencySettings
    /\ submitted = 0
    /\ fut = <<>>
    /\ order = <<>>
    /\ pdf_contents = <<>>
    /\ IdleAgg
    /\ out_file = [state |-> "absent", data |-> <<>>]
    /\ log = {}
    /\ IdleReader
    /\ IdleValidator
    /\ hung = 0
    /\ IdleCleaner
    /\ stage_exc = ""

IngestSpec == IngestInit /\ [][IngestNext]_vars

\* what a read does when only its ending matters: it returns a text or raises
FairDocs == {DocKeyword, FailDoc("PdfReadError")}

IngestFairNext ==
    \/ Executor_init
    \/ Submit
    \/ WorkerStart
    \/ \E i \in DOMAIN fut, doc \in FairDocs : WorkerFinish(i, doc)
    \/ \E i \in DOMAIN fut : AsCompleted(i)
    \/ ExecutorExit

\* the same call when threads are scheduled and every read terminates
IngestFairSpec == IngestInit /\ [][IngestFairNext]_vars /\ WF_vars(IngestFairNext)

(***************************************************************************)
(* Properties of read_pdfs_concurrently.                                   *)
(***************************************************************************)
Ended == pc \in {"returned", "raised"}
Occurrences(seq, x) == Cardinality({k \in DOMAIN seq : seq[k] = x})
\* the entry the collect loop owes to the future with index i
OwnEntry(i) ==
    [file_name |-> pdf_files[i],
     content |-> IF fut[i].res.kind = "return" THEN Str(fut[i].res.text) ELSE NoneVal]

\* C1: a call with max_workers > 0 that has ended has returned, and its result
\* holds exactly as many entries as paths were submitted, each path as often
\* as it was submitted (repeated paths included), whatever the reads did.
C1_Cardinality ==
    (Ended /\ max_workers > 0) =>
        /\ pc = "returned"
        /\ Len(pdf_contents) = Len(pdf_files)
        /\ \A p \in Paths :
              Occurrences([k \in DOMAIN pdf_contents |-> pdf_contents[k].file_name], p)
                  = Occurrences(pdf_files, p)

C1_Witness ==
    /\ pc = "returned"
    /\ max_workers = 1
    /\ pdf_files = <<PathA, PathA, PathC>>
    /\ \E k \in DOMAIN pdf_contents : pdf_contents[k].content = NoneVal
    /\ \E k \in DOMAIN pdf_contents : pdf_contents[k].content = Str(<<>>)
    /\ \E k \in DOMAIN pdf_contents : Truthy(pdf_contents[k].content)

\* C2: bulkhead isolation.  No exception is ever pending in a call with
\* max_workers > 0, and once the call has ended, for every future i whose read
\* raised, every other future j has its own entry (its path, its own text or
\* None) in the result.
C2_Bulkhead ==
    max_workers > 0 =>
        /\ pc # "unwind" /\ pc # "raised" /\ exc = ""
        /\ Ended =>
              \A i \in DOMAIN fut : fut[i].res.kind = "raise" =>
                  \A j \in DOMAIN fut \ {i} :
                      \E k \in DOMAIN order :
                          /\ order[k] = j
                          /\ k \in DOMAIN pdf_contents
                          /\ pdf_contents[k] = OwnEntry(j)

C2_Witness ==
    /\ pc = "returned"
    /\ Len(pdf_files) = 3
    /\ fut[2].res.kind = "raise"
    /\ order[1] = 2
    /\ Truthy(OwnEntry(1).content)
    /\ Truthy(OwnEntry(3).content)

\* C3: drain.  When the call returns, no read is queued or running, every
\* submitted future is done and was yielded exactly once, and the result has
\* one entry per future; and when threads are scheduled and every read
\* terminates, the call eventually ends, by returning if max_workers > 0.
C3_DrainedAtReturn ==
    pc = "returned" =>
        /\ Queued \cup Running = {}
        /\ DOMAIN fut = 1..Len(pdf_files)
        /\ \A i \in DOMAIN fut : fut[i].st = "done"
        /\ Len(order) = Len(pdf_files)
        /\ \A i \in DOMAIN fut : Occurrences(order, i) = 1
        /\ Len(pdf_contents) = Len(pdf_files)
C3_Drain ==
    /\ [](C3_DrainedAtReturn /\ ((Ended /\ max_workers > 0) => pc = "returned"))
    /\ <>Ended

C3_Witness ==
    /\ pc = "returned"
    /\ Len(pdf_files) = 3
    /\ max_workers = 2

\* C15: a call with max_workers <= 0 is rejected with ValueError by the
\* executor's constructor: no future is ever created, no read is submitted or
\* started, nothing is logged, the result stays empty and the call never
\* returns a value.
C15_RejectsNonPositiveConcurrency ==
    max_workers <= 0 =>
        /\ fut = <<>>
        /\ submitted = 0
        /\ order = <<>>
        /\ pdf_contents = <<>>
        /\ log = {}
        /\ pc \in {"call_ingest", "unwind", "raised"}
        /\ pc # "call_ingest" => exc = "ValueError"

C15_Witness ==
    /\ pc = "raised"
    /\ exc = "ValueError"
    /\ max_workers = 0
    /\ Len(pdf_files) = 3

\* C24: at most max_workers reads are running at the same time, in every state
\* of every call, for every number of submitted paths.
C24_BoundedParallelism ==
    /\ max_workers > 0 => Cardinality(Running) <= max_workers
    /\ max_workers <= 0 => Running = {}

C24_Witness ==
    /\ max_workers = 2
    /\ Cardinality(Running) = 2
    /\ Queued # {}

\* C26: the k-th result is the entry of the k-th yielded future: it carries
\* the path that future was submitted with, the text that future's read
\* returned (the empty text included) when it returned, and None exactly when
\* that read raised; an entry has a text or None, never both.
C26_ResultCorrelation ==
    /\ Len(pdf_contents) <= Len(order)
    /\ \A k \in DOMAIN pdf_contents :
          LET e == pdf_contents[k]
              r == fut[order[k]].res
          IN /\ e.file_name = pdf_files[order[k]]
             /\ e.content.isNone <=> r.kind = "raise"
             /\ r.kind = "return" => e.content = Str(r.text)
             /\ e.content.isNone => e.content.text = <<>>

C26_Witness ==
    /\ pc = "returned"
    /\ pdf_files = <<PathA, PathC, PathA>>
    /\ order = <<2, 3, 1>>
    /\ pdf_contents[1] = [file_name |-> PathC, content |-> Str(<<>>)]
    /\ pdf_contents[2].content = NoneVal
    /\ pdf_contents[3] = [file_name |-> PathA, content |-> Str(ExpectedKeyword \o <<" ", "o", "k">>)]

(***************************************************************************)
(* A call of read_pdfs_concurrently in which the read of one submitted     *)
(* document hangs in the parser: there is no timeout on future.result(),   *)
(* as_completed or shutdown.  Threads are scheduled and every other read   *)
(* terminates.                                                             *)
(***************************************************************************)
HangConcurrency == {0, 1, 2, DefaultMaxWorkers}

HangInit ==
    /\ entry = "read_pdfs_concurrently"
    /\ pc = "call_ingest"
    /\ exc = ""
    /\ disk = [exists |-> FALSE, files |-> <<>>]
    /\ pdf_files \in SeqsUpTo(IngestPaths, MaxFiles) \ {<<>>}
    /\ max_workers \in HangConcurrency
    /\ submitted = 0
    /\ fut = <<>>
    /\ order = <<>>
    /\ pdf_contents = <<>>
    /\ IdleAgg
    /\ out_file = [state |-> "absent", data |-> <<>>]
    /\ log = {}
    /\ IdleReader
    /\ IdleValidator
    /\ hung \in 1..Len(pdf_files)
    /\ IdleCleaner
    /\ stage_exc = ""

HangFairSpec == HangInit /\ [][IngestFairNext]_vars /\ WF_vars(IngestFairNext)

\* every read but the hung one has completed
OthersDone == Len(fut) = Len(pdf_files) /\ \A j \in DOMAIN fut \ {hung} : fut[j].st = "done"
\* ... and its result has been collected by the caller's loop
OthersCollected ==
    /\ OthersDone
    /\ Range(order) = DOMAIN fut \ {hung}
    /\ Len(pdf_contents) = Len(pdf_files) - 1

\* C25 as stated: for every max_workers >= 1 the call with a hung read never
\* ends, and the reads of all other submitted documents complete: when nothing
\* more can happen, every other future is done.
C25_HungReadIsolated ==
    max_workers >= 1 =>
        /\ ~Ended
        /\ ~ENABLED IngestFairNext => OthersDone

\* C25 amended: for every max_workers >= 1 the call never ends and the hung
\* read holds one worker; for max_workers >= 2 the reads of all other
\* submitted documents complete and their results are collected; with
\* max_workers = 1 no read queued behind the hung one is ever started.
C25_HungReadIsolatedWithSpareWorker ==
    /\ [](max_workers >= 1 =>
            /\ ~Ended
            /\ Cardinality(Running \ {hung}) <= max_workers - Cardinality(Running \cap {hung})
            /\ (max_workers = 1 /\ hung \in Running) =>
                  \A j \in DOMAIN fut : j > hung => fut[j].st \in {"new", "queued"})
    /\ (max_workers >= 2) ~> OthersCollected
    /\ (max_workers >= 1) ~> (hung \in Running)

C25_Witness ==
    /\ max_workers = 2
    /\ pdf_files = <<PathA, PathC, PathA>>
    /\ hung = 1
    /\ pc = "collect"
    /\ OthersCollected
    /\ fut[1].st = "running"

(***************************************************************************)
(* preprocess_content, extract_images_from_pdf, save_output.               *)
(***************************************************************************)
\* a validator without the keyword check
preprocess_content_any_nonempty(content) ==
    IF content = <<>> THEN Raised("InvalidContentError", "") ELSE Returned(Strip(content))

\* a validator that returns the content as it came
preprocess_content_no_strip(content) ==
    IF content = <<>> \/ ~Contains(content, ExpectedKeyword)
    THEN Raised("InvalidContentError", "")
    ELSE Returned(content)

\* processor.preprocess_content
preprocess_content(content) ==
    IF content = <<>> \/ ~Contains(content, ExpectedKeyword)
    THEN Raised("InvalidContentError", "")
    ELSE Returned(Strip(content))

\* what the environment does to one extract_images_from_pdf call
ImageOutcomes == {"ok", "error"}
\* extract_images_from_pdf: every exception is caught and logged
extract_images_from_pdf(k, env) ==
    IF env = "error" THEN {LogEntry("ERROR", "Error extracting images", k)} ELSE {}

\* what the environment does to one save_output call
SaveOutcomes == {"ok", "makedirs_error", "open_permission", "open_error", "write_error"}

\* a save_output whose PermissionError handler re-raises
save_output_reraises(data, file, env) ==
    IF env = "makedirs_error"
    THEN [raised |-> "FileNotFoundError", file |-> file, logs |-> {}]
    ELSE IF env = "open_permission"
    THEN [raised |-> "PermissionError", file |-> file,
          logs |-> {LogEntry("ERROR", "Permission denied: Unable to save data", 0)}]
    ELSE IF env = "open_error"
    THEN [raised |-> "", file |-> file,
          logs |-> {LogEntry("ERROR", "Failed to save output", 0)}]
    ELSE IF env = "write_error"
    THEN [raised |-> "", file |-> [state |-> "partial", data |-> <<>>],
          logs |-> {LogEntry("ERROR", "Failed to save output", 0)}]
    ELSE [raised |-> "", file |-> [state |-> "complete", data |-> data],
          logs |-> {LogEntry("INFO", "Data successfully saved", 0)}]

\* pdf_utils.save_output: os.makedirs outside the try, open and json.dump inside
save_output(data, file, env) ==
    IF env = "makedirs_error"
    THEN [raised |-> "FileNotFoundError", file |-> file, logs |-> {}]
    ELSE IF env = "open_permission"
    THEN [raised |-> "", file |-> file,
          logs |-> {LogEntry("ERROR", "Permission denied: Unable to save data", 0)}]
    ELSE IF env = "open_error"
    THEN [raised |-> "", file |-> file,
          logs |-> {LogEntry("ERROR", "Failed to save output", 0)}]
    ELSE IF env = "write_error"
    THEN [raised |-> "", file |-> [state |-> "partial", data |-> <<>>],
          logs |-> {LogEntry("ERROR", "Failed to save output", 0)}]
    ELSE [raised |-> "", file |-> [state |-> "complete", data |-> data],
          logs |-> {LogEntry("INFO", "Data successfully saved", 0)}]

(***************************************************************************)
(* process_pdfs.                                                           *)
(***************************************************************************)
\* file_utils.get_pdf_files: os.walk of a missing directory yields nothing,
\* and every exception is caught, so the call never raises
get_pdf_files(d) == IF d.exists THEN d.files ELSE <<>>

\* a process_pdfs without the early return for an empty batch
GetPdfFiles_no_early_return ==
    /\ pc = "start"
    /\ entry = "process_pdfs"
    /\ pdf_files' = get_pdf_files(disk)
    /\ pc' = "call_ingest"
    /\ max_workers' = DefaultMaxWorkers
    /\ UNCHANGED <<entry, exc, disk, submitted, fut, order, pdf_contents, aggVars, log, rdVars, valVars, hung, clVars, stage_exc>>

\* pdf_files = get_pdf_files(pdf_directory); if not pdf_files: warn and return
GetPdfFiles ==
    /\ pc = "start"
    /\ entry = "process_pdfs"
    /\ pdf_files' = get_pdf_files(disk)
    /\ IF get_pdf_files(disk) = <<>>
       THEN /\ pc' = "done"
            /\ log' = log \cup {LogEntry("WARNING", "No PDF files found to process in directory", 0)}
            /\ max_workers' = max_workers
       ELSE /\ pc' = "call_ingest"
            /\ log' = log
            /\ max_workers' = DefaultMaxWorkers
    /\ UNCHANGED <<entry, exc, disk, submitted, fut, order, pdf_contents, aggVars, rdVars, valVars, hung, clVars, stage_exc>>

\* output_dir_path.mkdir(parents=True, exist_ok=True), after the read stage
Mkdir(ok) ==
    /\ pc = "mkdir"
    /\ IF ok
       THEN /\ pc' = "aggregate"
            /\ mkdir_done' = TRUE
            /\ UNCHANGED <<exc, log>>
       ELSE /\ pc' = "raised"
            /\ exc' = "FileSaveError"
            /\ mkdir_done' = FALSE
            /\ log' = log \cup {LogEntry("ERROR", "Failed to create output directory", 0)}
    /\ UNCHANGED <<entry, disk, ingestVars, agg_k, all_data, out_file, save_calls, rdVars, valVars, hung, clVars, stage_exc>>

\* an aggregation that keeps the text of an item the validator rejected
item_records_keep_unvalidated(item) ==
    IF Truthy(item.content)
    THEN <<[file_name |-> PathName(item.file_name),
            content |-> IF preprocess_content(item.content.text).kind = "return"
                        THEN preprocess_content(item.content.text).text
                        ELSE item.content.text]>>
    ELSE <<>>

\* an aggregation that adds an empty record for an item whose read failed
item_records_record_failed(item) ==
    IF item.content.isNone
    THEN <<[file_name |-> PathName(item.file_name), content |-> <<>>]>>
    ELSE IF Truthy(item.content) /\ preprocess_content(item.content.text).kind = "return"
    THEN <<[file_name |-> PathName(item.file_name),
            content |-> preprocess_content(item.content.text).text]>>
    ELSE <<>>

\* the records one item adds to all_data
item_records(item) ==
    IF Truthy(item.content) /\ preprocess_content(item.content.text).kind = "return"
    THEN <<[file_name |-> PathName(item.file_name),
            content |-> preprocess_content(item.content.text).text]>>
    ELSE <<>>

\* the log line of the branch one item takes
item_log(k, item) ==
    IF ~Truthy(item.content)
    THEN LogEntry("WARNING", "No content extracted from file", k)
    ELSE IF preprocess_content(item.content.text).kind = "return"
    THEN LogEntry("INFO", "Content extracted and preprocessed", k)
    ELSE IF preprocess_content(item.content.text).exc = "InvalidContentError"
    THEN LogEntry("WARNING", "Invalid content", k)
    ELSE LogEntry("ERROR", "Error during preprocessing content", k)

\* a loop that inserts each new record at the front of all_data
AggregateItem_prepend(img) ==
    /\ pc = "aggregate"
    /\ agg_k < Len(pdf_contents)
    /\ LET k == agg_k + 1
           item == pdf_contents[k]
       IN /\ all_data' = item_records(item) \o all_data
          /\ log' = log \cup {item_log(k, item)} \cup extract_images_from_pdf(k, img)
          /\ agg_k' = k
    /\ UNCHANGED <<entry, pc, exc, disk, ingestVars, mkdir_done, out_file, save_calls, rdVars, valVars, hung, clVars, stage_exc>>

\* a loop in which an image-extraction failure escapes and ends the run
AggregateItem_image_error_fatal(img) ==
    /\ pc = "aggregate"
    /\ agg_k < Len(pdf_contents)
    /\ LET k == agg_k + 1
           item == pdf_contents[k]
       IN /\ all_data' = all_data \o item_records(item)
          /\ log' = log \cup {item_log(k, item)}
          /\ agg_k' = k
    /\ pc' = IF img = "error" THEN "raised" ELSE pc
    /\ exc' = IF img = "error" THEN "RuntimeError" ELSE exc
    /\ UNCHANGED <<entry, disk, ingestVars, mkdir_done, out_file, save_calls, rdVars, valVars, hung, clVars, stage_exc>>

\* one iteration of: for pdf_data in pdf_contents
AggregateItem(img) ==
    /\ pc = "aggregate"
    /\ agg_k < Len(pdf_contents)
    /\ LET k == agg_k + 1
           item == pdf_contents[k]
       IN /\ all_data' = all_data \o item_records(item)
          /\ log' = log \cup {item_log(k, item)} \cup extract_images_from_pdf(k, img)
          /\ agg_k' = k
    /\ UNCHANGED <<entry, pc, exc, disk, ingestVars, mkdir_done, out_file, save_calls, rdVars, valVars, hung, clVars, stage_exc>>

\* a save placed inside the loop: it runs after an iteration, before the
\* remaining items are aggregated
SaveAllData_in_loop(env) ==
    /\ pc = "aggregate"
    /\ save_calls < agg_k
    /\ all_data # <<>>
    /\ LET r == save_output(all_data, out_file, env) IN
        /\ save_calls' = save_calls + 1
        /\ out_file' = r.file
        /\ log' = log \cup r.logs
        /\ pc' = IF agg_k = Len(pdf_contents) THEN "done" ELSE pc
    /\ UNCHANGED <<entry, exc, disk, ingestVars, agg_k, all_data, mkdir_done, rdVars, valVars, hung, clVars, stage_exc>>

\* if all_data: save_output(...) in try/except Exception -> FileSaveError
SaveAllData(env) ==
    /\ pc = "aggregate"
    /\ agg_k = Len(pdf_contents)
    /\ all_data # <<>>
    /\ LET r == save_output(all_data, out_file, env) IN
        /\ save_calls' = save_calls + 1
        /\ out_file' = r.file
        /\ IF r.raised # ""
           THEN /\ pc' = "raised"
                /\ exc' = "FileSaveError"
                /\ log' = log \cup r.logs \cup {LogEntry("ERROR", "Error while saving output", 0)}
           ELSE /\ pc' = "done"
                /\ exc' = exc
                /\ log' = log \cup r.logs
                       \cup {LogEntry("INFO", "Processed PDFs and saved content successfully", 0)}
    /\ UNCHANGED <<entry, disk, ingestVars, agg_k, all_data, mkdir_done, rdVars, valVars, hung, clVars, stage_exc>>

\* else: logger.warning("No content extracted to save after processing PDFs.")
NothingToSave ==
    /\ pc = "aggregate"
    /\ agg_k = Len(pdf_contents)
    /\ all_data = <<>>
    /\ pc' = "done"
    /\ log' = log \cup {LogEntry("WARNING", "No content extracted to save after processing PDFs", 0)}
    /\ UNCHANGED <<entry, exc, disk, ingestVars, aggVars, rdVars, valVars, hung, clVars, stage_exc>>

RECURSIVE FlatRecords(_)
\* the records the aggregation loop builds from a list of items, in list order
FlatRecords(items) ==
    IF items = <<>> THEN <<>> ELSE item_records(Head(items)) \o FlatRecords(Tail(items))
SameMultiset(a, b) == \A r \in Range(a) \cup Range(b) : Occurrences(a, r) = Occurrences(b, r)

\* C6: the records built from the result of a returned call are, as a multiset,
\* the records built from the submitted paths paired with what their own reads
\* returned: a function of the inputs and the read outcomes alone, the same for
\* max_workers 1, 2, 4 and 8 and for every completion order.
C6_ConcurrencyIndependence ==
    pc = "returned" =>
        SameMultiset(FlatRecords(pdf_contents), FlatRecords([i \in DOMAIN fut |-> OwnEntry(i)]))

C6_Witness ==
    /\ pc = "returned"
    /\ max_workers = 8
    /\ pdf_files = <<PathA, PathC, PathA>>
    /\ order = <<3, 2, 1>>
    /\ Len(FlatRecords(pdf_contents)) = 2
    /\ pdf_contents[1].content = NoneVal

Init ==
    /\ entry = "process_pdfs"
    /\ pc = "start"
    /\ exc = ""
    /\ disk \in {[exists |-> FALSE, files |-> <<>>]}
            \cup {[exists |-> TRUE, files |-> f] : f \in {g \in SeqsUpTo(Paths, MaxFiles) : Injective(g)}}
    /\ pdf_files = <<>>
    /\ max_workers = 0
    /\ submitted = 0
    /\ fut = <<>>
    /\ order = <<>>
    /\ pdf_contents = <<>>
    /\ IdleAgg
    /\ out_file \in {[state |-> "absent", data |-> <<>>], [state |-> "old", data |-> <<>>]}
    /\ log = {}
    /\ IdleReader
    /\ IdleValidator
    /\ hung = 0
    /\ IdleCleaner
    /\ stage_exc = ""

Next ==
    \/ GetPdfFiles
    \/ Executor_init
    \/ Submit
    \/ WorkerStart
    \/ \E i \in DOMAIN fut, doc \in BatchDocs : WorkerFinish(i, doc)
    \/ \E i \in DOMAIN fut : AsCompleted(i)
    \/ ExecutorExit
    \/ \E ok \in BOOLEAN : Mkdir(ok)
    \/ \E img \in ImageOutcomes : AggregateItem(img)
    \/ \E env \in SaveOutcomes : SaveAllData(env)
    \/ NothingToSave

Spec == Init /\ [][Next]_vars

(***************************************************************************)
(* Either entry point: a run of process_pdfs or a direct call of           *)
(* read_pdfs_concurrently.                                                 *)
(***************************************************************************)
PipelineInit == Init \/ IngestInit

PipelineNext ==
    \/ entry = "process_pdfs" /\ Next
    \/ entry = "read_pdfs_concurrently" /\ IngestNext

PipelineSpec == PipelineInit /\ [][PipelineNext]_vars

NoPdfFilesLogged == LogEntry("WARNING", "No PDF files found to process in directory", 0)

\* C14: a direct call with an empty path list and max_workers > 0 creates no
\* future, starts no read, logs nothing and can only return the empty list;
\* a run whose directory is missing or holds no PDF ends right after discovery:
\* it returns normally, its only log line is the "no PDF files" warning, all
\* four counts are zero, and no read, validation or save_output ever happens.
C14_EmptyBatch ==
    /\ (entry = "read_pdfs_concurrently" /\ pdf_files = <<>> /\ max_workers > 0) =>
          /\ fut = <<>>
          /\ submitted = 0
          /\ order = <<>>
          /\ pdf_contents = <<>>
          /\ exc = ""
          /\ log = {}
          /\ pc \in {"call_ingest", "collect", "returned"}
    /\ (entry = "process_pdfs" /\ pc # "start" /\ disk.files = <<>>) =>
          /\ pc = "done"
          /\ exc = ""
          /\ pdf_files = <<>>
          /\ fut = <<>>
          /\ submitted = 0
          /\ pdf_contents = <<>>
          /\ agg_k = 0
          /\ all_data = <<>>
          /\ save_calls = 0
          /\ out_file.state \in {"absent", "old"}
          /\ log = {NoPdfFilesLogged}

C14_Witness ==
    /\ entry = "process_pdfs"
    /\ pc = "done"
    /\ disk = [exists |-> TRUE, files |-> <<>>]
    /\ log = {NoPdfFilesLogged}
    /\ save_calls = 0

\* the direct call with an empty list does return
C14_IngestReturnsEmpty ==
    /\ entry = "read_pdfs_concurrently"
    /\ pc = "returned"
    /\ pdf_files = <<>>
    /\ pdf_contents = <<>>

(***************************************************************************)
(* The 3-path scenario: A's read returns "Hello world" (or the same text   *)
(* followed by the required marker), B's read fails, C's read returns "".  *)
(***************************************************************************)
DocHelloKeyword == PagesDoc(<<Str(HelloWorld), Str(ExpectedKeyword)>>)
ScenarioDocs(p) ==
    IF p = PathA THEN {DocHello, DocHelloKeyword}
    ELSE IF p = PathB THEN {FailDoc("PdfReadError")}
    ELSE {DocEmpty}

ScenarioInit ==
    /\ entry = "process_pdfs"
    /\ pc = "start"
    /\ exc = ""
    /\ disk = [exists |-> TRUE, files |-> <<PathA, PathB, PathC>>]
    /\ pdf_files = <<>>
    /\ max_workers = 0
    /\ submitted = 0
    /\ fut = <<>>
    /\ order = <<>>
    /\ pdf_contents = <<>>
    /\ IdleAgg
    /\ out_file \in {[state |-> "absent", data |-> <<>>], [state |-> "old", data |-> <<>>]}
    /\ log = {}
    /\ IdleReader
    /\ IdleValidator
    /\ hung = 0
    /\ IdleCleaner
    /\ stage_exc = ""

ScenarioNext ==
    \/ GetPdfFiles
    \/ Executor_init
    \/ Submit
    \/ WorkerStart
    \/ \E i \in DOMAIN fut : \E doc \in ScenarioDocs(pdf_files[i]) : WorkerFinish(i, doc)
    \/ \E i \in DOMAIN fut : AsCompleted(i)
    \/ ExecutorExit
    \/ \E ok \in BOOLEAN : Mkdir(ok)
    \/ \E img \in ImageOutcomes : AggregateItem(img)
    \/ \E env \in SaveOutcomes : SaveAllData(env)
    \/ NothingToSave

ScenarioSpec == ScenarioInit /\ [][ScenarioNext]_vars

(***************************************************************************)
(* Properties of process_pdfs.                                             *)
(***************************************************************************)
\* the four outcomes of the items the aggregation loop has handled
Handled == 1..agg_k
Succeeded == Len(all_data)
FailedRead == Cardinality({k \in Handled : pdf_contents[k].content.isNone})
SkippedEmpty == Cardinality({k \in Handled : pdf_contents[k].content = Str(<<>>)})
RejectedInvalid == Cardinality({k \in Handled : LogEntry("WARNING", "Invalid content", k) \in log})
RunEnded == pc \in {"done", "raised"}
\* the position in pdf_contents of the entry of path p (paths of a run are distinct)
PositionOf(p) == CHOOSE k \in DOMAIN pdf_contents : pdf_contents[k].file_name = p

\* C4: at the end of every run the four outcome counts add up to the number of
\* submitted paths.
C4_InvariantSum ==
    RunEnded => Succeeded + SkippedEmpty + RejectedInvalid + FailedRead = Len(pdf_files)

\* The sum holds in every run that gets past the creation of the output
\* directory: each handled item is in exactly one of the four outcomes.
SumAfterAggregation ==
    /\ Succeeded + SkippedEmpty + RejectedInvalid + FailedRead = agg_k
    /\ (RunEnded /\ ~(exc = "FileSaveError" /\ ~mkdir_done)) => agg_k = Len(pdf_files)

\* C5 as stated: when A's read returned "Hello world" the run ends with
\* succeeded=1, failed-read=1, skipped-empty=1 and an output file holding
\* exactly one record, for A.
C5_Scenario ==
    (pc = "done" /\ fut[1].res.text = HelloWorld) =>
        /\ Succeeded = 1
        /\ FailedRead = 1
        /\ SkippedEmpty = 1
        /\ out_file.state = "complete"
        /\ Len(out_file.data) = 1
        /\ out_file.data[1].file_name = PathName(PathA)

\* C5 amended: once the loop has handled the three items, B is failed-read and
\* C is skipped-empty; A with "Hello world" (no marker "expected_keyword") is
\* rejected-invalid, succeeded=0, and in no state of such a run is save_output
\* invoked or the destination changed; A with the marker in its text is the one
\* succeeded record, and a completely written output holds exactly that record.
C5_ScenarioOnCode ==
    /\ agg_k = 3 =>
          /\ FailedRead = 1 /\ pdf_contents[PositionOf(PathB)].content = NoneVal
          /\ SkippedEmpty = 1 /\ pdf_contents[PositionOf(PathC)].content = Str(<<>>)
          /\ IF fut[1].res.text = HelloWorld
             THEN /\ Succeeded = 0
                  /\ RejectedInvalid = 1
                  /\ LogEntry("WARNING", "Invalid content", PositionOf(PathA)) \in log
             ELSE /\ Succeeded = 1
                  /\ RejectedInvalid = 0
                  /\ all_data = <<[file_name |-> "x.pdf",
                                   content |-> HelloWorld \o <<" ">> \o ExpectedKeyword]>>
    /\ (1 \in DOMAIN fut /\ fut[1].res.text = HelloWorld) =>
          /\ save_calls = 0
          /\ out_file.state \in {"absent", "old"}
          /\ pc = "done" => LogEntry("WARNING", "No content extracted to save after processing PDFs", 0) \in log
    /\ out_file.state = "complete" => out_file.data = all_data /\ Len(all_data) = 1

C5_Witness ==
    /\ pc = "done"
    /\ agg_k = 3
    /\ fut[1].res.text = HelloWorld
    /\ RejectedInvalid = 1
    /\ FailedRead = 1
    /\ SkippedEmpty = 1

\* save_output met an I/O failure: it was invoked and the destination does not
\* hold the complete output
PersistFailed == save_calls > 0 /\ out_file.state # "complete"

\* C9: every I/O failure during persist is reported to the caller of
\* process_pdfs as a persistence failure (FileSaveError), and persist is
\* attempted at most once per run.
C9_PersistFailureReported ==
    /\ save_calls <= 1
    /\ (RunEnded /\ PersistFailed) => (pc = "raised" /\ exc = "FileSaveError")

PermissionDeniedLogged == LogEntry("ERROR", "Permission denied: Unable to save data", 0) \in log
FailedToSaveLogged == LogEntry("ERROR", "Failed to save output", 0) \in log

\* C10: whenever opening or writing the output file raised (PermissionError
\* or any other exception), save_output logged an error and returned normally:
\* nothing was raised to process_pdfs, which goes on to its normal end.
C10_SaveOutputSwallows ==
    /\ (PermissionDeniedLogged \/ FailedToSaveLogged) =>
          /\ save_calls = 1
          /\ pc = "done"
          /\ exc = ""
    /\ (save_calls = 1 /\ out_file.state = "partial") => FailedToSaveLogged
    /\ (pc = "raised" /\ save_calls = 1) => ~(PermissionDeniedLogged \/ FailedToSaveLogged)

C10_Witness ==
    /\ PermissionDeniedLogged
    /\ pc = "done"
    /\ save_calls = 1
    /\ out_file.state = "old"

\* C11: when persist fails (PermissionError on open, or an error part-way
\* through writing), the destination is left as it was: it never holds
\* truncated or partially written content.
C11_PriorOutputUnmodified ==
    /\ out_file.state # "partial"
    /\ (PermissionDeniedLogged \/ FailedToSaveLogged) => out_file.state \in {"absent", "old"}

SavedSuccessfullyLogged ==
    LogEntry("INFO", "Processed PDFs and saved content successfully", 0) \in log

\* C12: a run in which at least one record was extracted and persisting it
\* failed ends by raising FileSaveError and never logs that the output was
\* saved successfully.
C12_FailedRunReported ==
    (RunEnded /\ all_data # <<>> /\ PersistFailed) =>
        /\ pc = "raised"
        /\ exc = "FileSaveError"
        /\ ~SavedSuccessfullyLogged

\* the text of an item passes validation: non-empty and holding the marker
ValidText(c) == Truthy(c) /\ Contains(c.text, ExpectedKeyword)
SkipWarning(k) == LogEntry("WARNING", "No content extracted from file", k) \in log
InvalidWarning(k) == LogEntry("WARNING", "Invalid content", k) \in log
ExtractedInfo(k) == LogEntry("INFO", "Content extracted and preprocessed", k) \in log
NothingToSaveLogged ==
    LogEntry("WARNING", "No content extracted to save after processing PDFs", 0) \in log
\* the aggregation loop has gone through the whole of a non-empty batch
BatchAggregated == pdf_files # <<>> /\ pc \in {"aggregate", "done", "raised"} /\ agg_k = Len(pdf_files)

\* C13: as long as no handled item of the batch has succeeded, save_output has
\* not been invoked and the destination is untouched; and a run whose loop went
\* through a non-empty batch without one success ends normally, with the
\* "nothing to save" warning and without raising or reporting a saved output.
C13_NothingToPersist ==
    /\ (\A k \in Handled : ~ValidText(pdf_contents[k].content)) =>
          /\ all_data = <<>>
          /\ save_calls = 0
          /\ out_file.state \in {"absent", "old"}
    /\ (BatchAggregated /\ RunEnded /\ \A k \in Handled : ~ValidText(pdf_contents[k].content)) =>
          /\ pc = "done"
          /\ exc = ""
          /\ NothingToSaveLogged
          /\ ~SavedSuccessfullyLogged

C13_Witness ==
    /\ pc = "done"
    /\ agg_k = 3
    /\ save_calls = 0
    /\ NothingToSaveLogged
    /\ pdf_contents[1].content = Str(HelloWorld)
    /\ pdf_contents[2].content = NoneVal
    /\ pdf_contents[3].content = Str(<<>>)

\* C16: a run rejected because the output directory cannot be created is
\* rejected before any read was dispatched.
C16_DestinationFailsFast ==
    (pc = "raised" /\ exc = "FileSaveError" /\ ~mkdir_done) => (submitted = 0 /\ fut = <<>>)

ImageErrorLogged(k) == LogEntry("ERROR", "Error extracting images", k) \in log

\* C17: process_pdfs raises only FileSaveError, and only for the output
\* directory (before the loop) or for the final save (after the loop handled
\* every item); no exception is ever pending from the read stage; and a run of
\* a non-empty batch that ends normally has handled every item, each with the
\* log line of its branch, whatever failed for the items before it.
C17_PerDocumentErrorsContained ==
    /\ pc # "unwind"
    /\ pc = "raised" =>
          /\ exc = "FileSaveError"
          /\ \/ ~mkdir_done /\ agg_k = 0
             \/ mkdir_done /\ save_calls = 1 /\ agg_k = Len(pdf_files)
    /\ (pc = "done" /\ pdf_files # <<>>) =>
          /\ exc = ""
          /\ Len(pdf_contents) = Len(pdf_files)
          /\ agg_k = Len(pdf_files)
    /\ \A k \in Handled : SkipWarning(k) \/ InvalidWarning(k) \/ ExtractedInfo(k)

C17_Witness ==
    /\ pc = "done"
    /\ agg_k = 3
    /\ pdf_contents[1].content = NoneVal
    /\ pdf_contents[2].content = Str(HelloWorld)
    /\ ImageErrorLogged(1)
    /\ ImageErrorLogged(2)
    /\ ValidText(pdf_contents[3].content)
    /\ Len(all_data) = 1
    /\ out_file.state = "complete"

\* C18: an entry of the result has content None exactly when its read raised;
\* for every such item the loop logs the "no content" warning, takes no
\* validator branch and adds no record (the records are as many as the handled
\* items with valid text), and a run that ends normally has handled every item.
C18_ReadErrorItems ==
    /\ \A k \in DOMAIN pdf_contents :
          pdf_contents[k].content.isNone <=> fut[order[k]].res.kind = "raise"
    /\ \A k \in Handled : pdf_contents[k].content.isNone =>
          /\ SkipWarning(k)
          /\ ~InvalidWarning(k)
          /\ ~ExtractedInfo(k)
    /\ Len(all_data) = Cardinality({k \in Handled : ValidText(pdf_contents[k].content)})
    /\ FailedRead = Cardinality({k \in Handled : fut[order[k]].res.kind = "raise"})
    /\ (pc = "done" /\ pdf_files # <<>>) => agg_k = Len(pdf_contents)

C18_Witness ==
    /\ pc = "done"
    /\ agg_k = 3
    /\ fut[order[1]].res.kind = "raise"
    /\ SkipWarning(1)
    /\ Len(all_data) = 2

\* C19: every handled item whose read returned a text that is empty after
\* trimming is skipped-empty: the "no content" warning is logged for it, no
\* validator outcome (neither rejected nor extracted), it is not a failed read,
\* it adds no record, and the items after it are handled.
C19_EmptyTextItems ==
    /\ \A k \in Handled :
          (~pdf_contents[k].content.isNone /\ Strip(pdf_contents[k].content.text) = <<>>) =>
              /\ SkipWarning(k)
              /\ ~InvalidWarning(k)
              /\ ~ExtractedInfo(k)
              /\ fut[order[k]].res.kind = "return"
              /\ pdf_contents[k].content = Str(<<>>)
    /\ SkippedEmpty + FailedRead = Cardinality({k \in Handled : SkipWarning(k)})
    /\ Len(all_data) <= agg_k - SkippedEmpty
    /\ (pc = "done" /\ pdf_files # <<>>) => agg_k = Len(pdf_contents)

C19_Witness ==
    /\ pc = "done"
    /\ agg_k = 3
    /\ pdf_contents[1].content = Str(<<>>)
    /\ SkipWarning(1)
    /\ SkippedEmpty = 1
    /\ Len(all_data) = 2

RECURSIVE ValidatedRecords(_)
\* one record per item with valid text, in list order: the last component of
\* the item's path and its trimmed text
ValidatedRecords(items) ==
    IF items = <<>> THEN <<>>
    ELSE (IF ValidText(Head(items).content)
          THEN <<[file_name |-> Head(items).file_name[Len(Head(items).file_name)],
                  content |-> Strip(Head(items).content.text)]>>
          ELSE <<>>) \o ValidatedRecords(Tail(items))

\* C20: every handled item with non-empty text has exactly one validator
\* outcome, rejected (warning) or extracted; the records are, in order, one per
\* handled item with valid text, holding the base name of its path and its
\* trimmed text, and nothing for a rejected item; a run that ends normally has
\* handled every item.
C20_ValidatedItems ==
    /\ \A k \in Handled : Truthy(pdf_contents[k].content) =>
          /\ ~SkipWarning(k)
          /\ InvalidWarning(k) # ExtractedInfo(k)
          /\ ExtractedInfo(k) <=> ValidText(pdf_contents[k].content)
    /\ all_data = ValidatedRecords(SubSeq(pdf_contents, 1, agg_k))
    /\ (pc = "done" /\ pdf_files # <<>>) => agg_k = Len(pdf_contents)

C20_Witness ==
    /\ pc = "done"
    /\ agg_k = 3
    /\ pdf_contents[1].content = Str(HelloWorld)
    /\ InvalidWarning(1)
    /\ pdf_contents[2].file_name = PathB
    /\ ExtractedInfo(2)
    /\ all_data[1] = [file_name |-> "x.pdf", content |-> ExpectedKeyword \o <<" ", "o", "k">>]
    /\ Len(all_data) = 2

RECURSIVE ArrivalRecords(_)
\* the records owed to a sequence of futures, in that order: one per future
\* whose read returned valid text, with the base name of the future's path
ArrivalRecords(ix) ==
    IF ix = <<>> THEN <<>>
    ELSE (IF fut[Head(ix)].res.kind = "return" /\ ValidText(Str(fut[Head(ix)].res.text))
          THEN <<[file_name |-> pdf_files[Head(ix)][Len(pdf_files[Head(ix)])],
                  content |-> Strip(fut[Head(ix)].res.text)]>>
          ELSE <<>>) \o ArrivalRecords(Tail(ix))

\* C23: the records are in arrival order: all_data holds the records of the
\* futures as_completed yielded, in yield order, whatever the order of the
\* paths in the discovered list; and that is the sequence save_output is given
\* and a completely written output holds.
C23_ArrivalOrder ==
    /\ agg_k <= Len(order)
    /\ all_data = ArrivalRecords(SubSeq(order, 1, agg_k))
    /\ save_calls > 0 => all_data = ArrivalRecords(order)
    /\ out_file.state = "complete" => out_file.data = ArrivalRecords(order)

C23_Witness ==
    /\ pc = "done"
    /\ pdf_files = <<PathA, PathB, PathC>>
    /\ order = <<3, 1, 2>>
    /\ out_file.state = "complete"
    /\ Len(out_file.data) = 2
    /\ out_file.data[1].file_name = "y.pdf"
    /\ out_file.data[2].file_name = "x.pdf"
    /\ fut[2].res.kind = "raise"

\* C27: an image-extraction failure is logged for an item the loop handled and
\* nothing more: no exception other than FileSaveError ever ends the run, the
\* records are those of the handled items with valid text whether or not image
\* extraction failed for them, and a run that got past the output directory
\* with a valid item has invoked save_output.
C27_ImageFailureNotFatal ==
    /\ \A k \in 1..MaxFiles : ImageErrorLogged(k) => k \in Handled
    /\ pc = "raised" => exc = "FileSaveError"
    /\ all_data = ValidatedRecords(SubSeq(pdf_contents, 1, agg_k))
    /\ (RunEnded /\ mkdir_done) => agg_k = Len(pdf_contents)
    /\ (RunEnded /\ mkdir_done /\ \E k \in Handled : ValidText(pdf_contents[k].content)) =>
          save_calls = 1

C27_Witness ==
    /\ pc = "done"
    /\ agg_k = 3
    /\ \A k \in 1..3 : ImageErrorLogged(k)
    /\ out_file.state = "complete"
    /\ Len(out_file.data) = 2

\* the read stage is over for the whole batch: every path has a future, every
\* future is done and was yielded, and the result has one entry per path
ReadStageDrained ==
    /\ Len(fut) = Len(pdf_files)
    /\ Queued \cup Running = {}
    /\ \A i \in DOMAIN fut : fut[i].st = "done"
    /\ Range(order) = DOMAIN fut
    /\ Len(pdf_contents) = Len(pdf_files)

\* C30: whenever an item has been validated or had its images extracted (or
\* the run is at or past the creation of the output directory), the read stage
\* is drained for the whole batch; save_output is invoked at most once, and
\* only when every item of the stream has been aggregated.
C30_StagesForward ==
    /\ (agg_k > 0 \/ mkdir_done \/ pc \in {"mkdir", "aggregate"} \/ all_data # <<>>
        \/ \E k \in 1..MaxFiles :
              SkipWarning(k) \/ InvalidWarning(k) \/ ExtractedInfo(k) \/ ImageErrorLogged(k))
          => ReadStageDrained
    /\ save_calls <= 1
    /\ save_calls = 1 =>
          /\ ReadStageDrained
          /\ mkdir_done
          /\ agg_k = Len(pdf_contents)
          /\ pc \in {"done", "raised"}

C30_Witness ==
    /\ pc = "done"
    /\ save_calls = 1
    /\ agg_k = 3
    /\ order = <<2, 3, 1>>
    /\ Len(all_data) = 3

\* C28: process_pdfs raises FileNotFoundErrorCustom when the PDF directory
\* does not exist or holds no PDF file.
C28_RaisesFileNotFoundErrorCustom ==
    (entry = "process_pdfs" /\ pc # "start" /\ disk.files = <<>>) =>
        (pc = "raised" /\ exc = "FileNotFoundErrorCustom")

(***************************************************************************)
(* One call of processor.read_pdf_file.                                    *)
(***************************************************************************)
PageValues ==
    {NoneVal, Str(<<>>), Str(<<" ">>), Str(<<"a">>), Str(<<" ", "b", "\n">>),
     Str(ExpectedKeyword), Str(HelloWorld)}
ReaderDocs ==
    {PagesDoc(p) : p \in SeqsUpTo(PageValues, MaxPages)} \cup {FailDoc(e) : e \in ExceptionTypes}

ReadPdfFile ==
    /\ pc = "call_read"
    /\ rd_res' = read_pdf_file(rd_doc)
    /\ pc' = IF read_pdf_file(rd_doc).kind = "return" THEN "returned" ELSE "raised"
    /\ exc' = read_pdf_file(rd_doc).exc
    /\ log' = IF read_pdf_file(rd_doc).logmsg # ""
              THEN log \cup {LogEntry("ERROR", read_pdf_file(rd_doc).logmsg, 0)}
              ELSE log
    /\ UNCHANGED <<entry, disk, ingestVars, aggVars, rd_doc, valVars, hung, clVars, stage_exc>>

ReaderInit ==
    /\ entry = "read_pdf_file"
    /\ pc = "call_read"
    /\ exc = ""
    /\ disk = [exists |-> FALSE, files |-> <<>>]
    /\ pdf_files = <<>>
    /\ max_workers = 0
    /\ submitted = 0
    /\ fut = <<>>
    /\ order = <<>>
    /\ pdf_contents = <<>>
    /\ IdleAgg
    /\ out_file = [state |-> "absent", data |-> <<>>]
    /\ log = {}
    /\ rd_doc \in ReaderDocs
    /\ rd_res = NoRes
    /\ IdleValidator
    /\ hung = 0
    /\ IdleCleaner
    /\ stage_exc = ""

ReaderNext == ReadPdfFile

ReaderSpec == ReaderInit /\ [][ReaderNext]_vars

(***************************************************************************)
(* Properties of read_pdf_file.                                            *)
(***************************************************************************)
\* C8: processor.read_pdf_file ends every failing read (missing file, malformed
\* PDF, memory error, any other exception) by raising PDFProcessingError and no
\* other type, and every read of a document that opens and parses by returning
\* a text without leading or trailing whitespace.
C8_ReaderRaisesOnlyPDFProcessingError ==
    pc # "call_read" =>
        /\ rd_doc.fail # "" =>
              /\ pc = "raised"
              /\ exc = "PDFProcessingError"
              /\ rd_res.kind = "raise"
        /\ rd_doc.fail = "" =>
              /\ pc = "returned"
              /\ exc = ""
              /\ rd_res.kind = "return"
              /\ rd_res.text # <<>> =>
                    /\ rd_res.text[1] \notin Whitespace
                    /\ rd_res.text[Len(rd_res.text)] \notin Whitespace

C8_Witness ==
    /\ rd_doc = FailDoc("FileNotFoundError")
    /\ pc = "raised"
    /\ exc = "PDFProcessingError"

(***************************************************************************)
(* The two readers of the repository: processor.read_pdf_file (PyPDF2) and *)
(* utils.file_utils.read_pdf_file (pdfplumber), one call on one document.  *)
(***************************************************************************)
\* a call that returned None
ReturnedNone(m) == [kind |-> "return_none", text |-> <<>>, exc |-> "", logmsg |-> m]

RECURSIVE ConcatAll(_)
\* full_text += part, for every part in order
ConcatAll(parts) == IF parts = <<>> THEN <<>> ELSE Head(parts) \o ConcatAll(Tail(parts))

\* file_utils.read_pdf_file: None for a missing or unreadable file, otherwise
\* the page texts appended to each other
file_utils_read_pdf_file(doc) ==
    IF doc.fail = "FileNotFoundError" THEN ReturnedNone("File not found")
    ELSE IF doc.fail = "PermissionError" THEN ReturnedNone("Permission denied")
    ELSE IF doc.fail \in ExceptionTypes THEN ReturnedNone("Failed to process")
    ELSE IF doc.fail = ""
    THEN Returned(ConcatAll([j \in 1..Len(doc.pages) |-> PageText(doc.pages[j])]))
    ELSE Raised(doc.fail, "")

FileUtilsReadPdfFile ==
    /\ pc = "call_read"
    /\ rd_res' = file_utils_read_pdf_file(rd_doc)
    /\ pc' = IF file_utils_read_pdf_file(rd_doc).kind = "raise" THEN "raised" ELSE "returned"
    /\ exc' = file_utils_read_pdf_file(rd_doc).exc
    /\ log' = IF file_utils_read_pdf_file(rd_doc).logmsg # ""
              THEN log \cup {LogEntry("ERROR", file_utils_read_pdf_file(rd_doc).logmsg, 0)}
              ELSE log
    /\ UNCHANGED <<entry, disk, ingestVars, aggVars, rd_doc, valVars, hung, clVars, stage_exc>>

ReadersInit ==
    /\ entry \in {"read_pdf_file", "file_utils.read_pdf_file"}
    /\ pc = "call_read"
    /\ exc = ""
    /\ disk = [exists |-> FALSE, files |-> <<>>]
    /\ pdf_files = <<>>
    /\ max_workers = 0
    /\ submitted = 0
    /\ fut = <<>>
    /\ order = <<>>
    /\ pdf_contents = <<>>
    /\ IdleAgg
    /\ out_file = [state |-> "absent", data |-> <<>>]
    /\ log = {}
    /\ rd_doc \in ReaderDocs
    /\ rd_res = NoRes
    /\ IdleValidator
    /\ hung = 0
    /\ IdleCleaner
    /\ stage_exc = ""

ReadersNext ==
    \/ entry = "read_pdf_file" /\ ReadPdfFile
    \/ entry = "file_utils.read_pdf_file" /\ FileUtilsReadPdfFile

ReadersSpec == ReadersInit /\ [][ReadersNext]_vars

\* the texts of the pages of a document, page by page
PageTexts(doc) == [j \in 1..Len(doc.pages) |-> PageText(doc.pages[j])]

\* C29: for every document that opens and parses, the extracted text is the
\* page texts in page order, joined by a single space, without leading or
\* trailing whitespace, a page without text counting as the empty string.
C29_PagesJoinedAndTrimmed ==
    (pc # "call_read" /\ rd_doc.fail = "") =>
        /\ rd_res.kind = "return"
        /\ rd_res.text = Strip(JoinSpace(PageTexts(rd_doc)))

\* processor.read_pdf_file on its own does what C29 says
C29_HoldsOfProcessorReader == entry = "read_pdf_file" => C29_PagesJoinedAndTrimmed

(***************************************************************************)
(* One call of processor.preprocess_content, and a second call on the      *)
(* content the first one returned.                                         *)
(***************************************************************************)
Paddings == SeqsUpTo(Whitespace, MaxPad)
MarkerCut == SubSeq(ExpectedKeyword, 1, Len(ExpectedKeyword) - 1)
ValidatorCores ==
    {<<>>, HelloWorld, MarkerCut, ExpectedKeyword,
     <<"a", " ">> \o ExpectedKeyword \o <<"\t", "b">>}
ValidatorInputs == {a \o c \o b : a \in Paddings, b \in Paddings, c \in ValidatorCores}

\* preprocess_content(file_path, content)
Validate ==
    /\ pc = "call_validate"
    /\ val_res' = preprocess_content(val_in.text)
    /\ pc' = IF preprocess_content(val_in.text).kind = "return" THEN "validated" ELSE "raised"
    /\ exc' = preprocess_content(val_in.text).exc
    /\ UNCHANGED <<entry, disk, ingestVars, aggVars, log, rdVars, val_in, val_again, hung, clVars, stage_exc>>

\* preprocess_content(file_path, processed_content)
Revalidate ==
    /\ pc = "validated"
    /\ val_again' = preprocess_content(val_res.text)
    /\ pc' = IF preprocess_content(val_res.text).kind = "return" THEN "revalidated" ELSE "raised"
    /\ exc' = preprocess_content(val_res.text).exc
    /\ UNCHANGED <<entry, disk, ingestVars, aggVars, log, rdVars, val_in, val_res, hung, clVars, stage_exc>>

ValidatorInit ==
    /\ entry = "preprocess_content"
    /\ pc = "call_validate"
    /\ exc = ""
    /\ disk = [exists |-> FALSE, files |-> <<>>]
    /\ pdf_files = <<>>
    /\ max_workers = 0
    /\ submitted = 0
    /\ fut = <<>>
    /\ order = <<>>
    /\ pdf_contents = <<>>
    /\ IdleAgg
    /\ out_file = [state |-> "absent", data |-> <<>>]
    /\ log = {}
    /\ IdleReader
    /\ val_in \in {Str(t) : t \in ValidatorInputs}
    /\ val_res = NoRes
    /\ val_again = NoRes
    /\ hung = 0
    /\ IdleCleaner
    /\ stage_exc = ""

ValidatorNext == Validate \/ Revalidate

ValidatorSpec == ValidatorInit /\ [][ValidatorNext]_vars

(***************************************************************************)
(* Properties of preprocess_content.                                       *)
(***************************************************************************)
\* the marker occurs in t, character by character
HasMarker(t) ==
    \E i \in 1..Len(t) :
        /\ i + Len(ExpectedKeyword) - 1 <= Len(t)
        /\ \A j \in 1..Len(ExpectedKeyword) : t[i + j - 1] = ExpectedKeyword[j]
\* out is t without a leading and a trailing run of whitespace, and no
\* whitespace is left at either end of out
TrimOf(t, out) ==
    \E a, b \in 0..Len(t) :
        /\ a + b <= Len(t)
        /\ \A i \in 1..a : t[i] \in Whitespace
        /\ \A i \in (Len(t) - b + 1)..Len(t) : t[i] \in Whitespace
        /\ out = [i \in 1..(Len(t) - a - b) |-> t[a + i]]
        /\ out # <<>> => (out[1] \notin Whitespace /\ out[Len(out)] \notin Whitespace)

\* C21: preprocess_content raises InvalidContentError exactly when the text is
\* empty or does not contain the marker "expected_keyword", and nothing else;
\* otherwise it returns the text without its leading and trailing whitespace;
\* the call changes nothing else (nothing is logged, its input is unchanged).
C21_ValidatorContract ==
    pc # "call_validate" =>
        /\ (val_res.kind = "raise") <=> (val_in.text = <<>> \/ ~HasMarker(val_in.text))
        /\ val_res.kind = "raise" => val_res.exc = "InvalidContentError"
        /\ val_res.kind \in {"raise", "return"}
        /\ val_res.kind = "return" => TrimOf(val_in.text, val_res.text)
        /\ log = {}
        /\ IdleAgg
        /\ fut = <<>>

C21_Witness ==
    /\ pc = "validated"
    /\ val_in = Str(<<" ", "\n">> \o ExpectedKeyword \o <<"\t">>)
    /\ val_res = Returned(ExpectedKeyword)

\* C22: for every text the validator accepted, the validator applied to the
\* returned content accepts it and returns that same content.
C22_IdempotentValidation ==
    (pc \in {"revalidated", "raised"} /\ val_res.kind = "return") =>
        /\ pc = "revalidated"
        /\ val_again.kind = "return"
        /\ val_again.text = val_res.text

C22_Witness ==
    /\ pc = "revalidated"
    /\ val_in.text # val_res.text
    /\ Len(val_in.text) = Len(val_res.text) + 2 * MaxPad
    /\ val_again = val_res

(***************************************************************************)
(* utils.file_utils.read_pdfs_concurrently: the same executor, submit and  *)
(* as_completed; the workers run file_utils.read_pdf_file and the collect  *)
(* loop appends the tuple (file, content) only for a truthy content.  A    *)
(* tuple is written as the record [file_name, content].                    *)
(***************************************************************************)
\* the max_workers values of a direct call: rejected, serial, the default
FileUtilsConcurrency == {0, 1, DefaultMaxWorkers}
\* the path lists of a direct call: PathA, PathC, PathA, ... of every length
\* up to MaxFiles, so that a list holds distinct and repeated paths
FileUtilsBatches ==
    {[i \in 1..n |-> IF i % 2 = 1 THEN PathA ELSE PathC] : n \in 0..MaxFiles}
FileUtilsDocs == {DocKeyword, DocEmpty, FailDoc("FileNotFoundError")}
\* what a submitted read ends with: what file_utils.read_pdf_file does with a
\* document, or an exception when the name read_pdf_file is bound to a
\* callable that raises (the tests bind it to a mock)
FileUtilsReadOutcomes ==
    {file_utils_read_pdf_file(d) : d \in FileUtilsDocs} \cup {Raised("ValueError", "")}

\* a collect loop that tests `content is not None`: the empty string is kept
file_utils_collect_entries_keep_empty(file, res) ==
    IF res.kind = "return"
    THEN <<[file_name |-> file, content |-> Str(res.text)]>>
    ELSE <<>>

\* content = future.result(); if content: pdf_contents.append((file, content))
file_utils_collect_entries(file, res) ==
    IF res.kind = "return" /\ res.text # <<>>
    THEN <<[file_name |-> file, content |-> Str(res.text)]>>
    ELSE <<>>

\* the worker's read_pdf_file(file) ends: the future holds its result
FileUtilsWorkerFinish(i, res) ==
    /\ i \in Running
    /\ i # hung
    /\ fut' = [fut EXCEPT ![i] = [st |-> "done", res |-> res]]
    /\ log' = IF res.logmsg # "" THEN log \cup {LogEntry("ERROR", res.logmsg, i)} ELSE log
    /\ UNCHANGED <<entry, pc, exc, disk, pdf_files, max_workers, submitted, order,
                   pdf_contents, aggVars, rdVars, valVars, hung, clVars, stage_exc>>

\* as_completed yields a finished future; the loop body handles it
FileUtilsAsCompleted(i) ==
    /\ pc = "collect"
    /\ i \in Done
    /\ i \notin Range(order)
    /\ LET res == fut[i].res IN
        /\ order' = Append(order, i)
        /\ pdf_contents' = pdf_contents \o file_utils_collect_entries(future_to_pdf(i), res)
        /\ log' = IF res.kind = "raise" /\ collect_propagates(res) = ""
                  THEN log \cup {LogEntry("ERROR", "Error reading", i)}
                  ELSE log
        /\ exc' = collect_propagates(res)
        /\ pc' = IF collect_propagates(res) = "" THEN "collect" ELSE "unwind"
    /\ UNCHANGED <<entry, disk, pdf_files, max_workers, submitted, fut, aggVars, rdVars, valVars,
                   hung, clVars, stage_exc>>

FileUtilsIngestNext ==
    \/ Executor_init
    \/ Submit
    \/ WorkerStart
    \/ \E i \in DOMAIN fut, res \in FileUtilsReadOutcomes : FileUtilsWorkerFinish(i, res)
    \/ \E i \in DOMAIN fut : FileUtilsAsCompleted(i)
    \/ ExecutorExit

FileUtilsIngestInit ==
    /\ entry = "file_utils.read_pdfs_concurrently"
    /\ pc = "call_ingest"
    /\ exc = ""
    /\ disk = [exists |-> FALSE, files |-> <<>>]
    /\ pdf_files \in FileUtilsBatches
    /\ max_workers \in FileUtilsConcurrency
    /\ submitted = 0
    /\ fut = <<>>
    /\ order = <<>>
    /\ pdf_contents = <<>>
    /\ IdleAgg
    /\ out_file = [state |-> "absent", data |-> <<>>]
    /\ log = {}
    /\ IdleReader
    /\ IdleValidator
    /\ hung = 0
    /\ IdleCleaner
    /\ stage_exc = ""

FileUtilsIngestSpec == FileUtilsIngestInit /\ [][FileUtilsIngestNext]_vars

\* the read of future i returned a non-empty text
ReadNonEmpty(i) == fut[i].res.kind = "return" /\ fut[i].res.text # <<>>
\* the tuple the collect loop owes to such a future
OwnTuple(i) == [file_name |-> pdf_files[i], content |-> Str(fut[i].res.text)]

\* C32: when file_utils.read_pdfs_concurrently has returned, its result holds
\* exactly one tuple (path, text) for each submitted path whose read returned a
\* non-empty text, and none for a path whose read returned None, returned the
\* empty string or raised; so the result is never longer than the path list.
C32_OneTuplePerNonEmptyRead ==
    (entry = "file_utils.read_pdfs_concurrently" /\ pc = "returned") =>
        /\ Len(pdf_contents) = Cardinality({i \in DOMAIN fut : ReadNonEmpty(i)})
        /\ \A i \in DOMAIN fut : ReadNonEmpty(i) => OwnTuple(i) \in Range(pdf_contents)
        /\ \A e \in Range(pdf_contents) :
              Occurrences(pdf_contents, e)
                  = Cardinality({i \in DOMAIN fut : ReadNonEmpty(i) /\ OwnTuple(i) = e})
        /\ Len(pdf_contents) <= Len(pdf_files)

\* a returned call whose result is shorter than its path list: one read
\* returned None, one raised, one returned a text
C32_Witness ==
    /\ entry = "file_utils.read_pdfs_concurrently"
    /\ pc = "returned"
    /\ pdf_files = <<PathA, PathC, PathA>>
    /\ fut[1].res.kind = "return_none"
    /\ fut[2].res.kind = "raise"
    /\ ReadNonEmpty(3)
    /\ pdf_contents = <<OwnTuple(3)>>

(***************************************************************************)
(* Either concurrent ingest: processor.read_pdfs_concurrently or           *)
(* file_utils.read_pdfs_concurrently.                                      *)
(***************************************************************************)
IngestsInit == IngestInit \/ FileUtilsIngestInit

IngestsNext ==
    \/ entry = "read_pdfs_concurrently" /\ IngestFairNext
    \/ entry = "file_utils.read_pdfs_concurrently" /\ FileUtilsIngestNext

IngestsSpec == IngestsInit /\ [][IngestsNext]_vars

\* a step of a worker thread: a queued or running future changes
WorkerStep ==
    \E i \in DOMAIN fut : fut[i].st \in {"queued", "running"} /\ fut'[i] # fut[i]

\* what holds of the result list in every state: no future was yielded twice
\* and the list has at most one entry per yielded future
C31_OncePerFuture ==
    /\ \A i \in DOMAIN fut : Occurrences(order, i) <= 1
    /\ Len(pdf_contents) <= Len(order)
    /\ \A i \in Range(order) : fut[i].st = "done"

\* what holds of every step: a worker changes its own future and nothing of
\* the results; a completed future keeps its result; the result list changes
\* only in the collect loop, by one entry appended for the future yielded
C31_SingleConsumerStep ==
    /\ WorkerStep =>
          /\ pdf_contents' = pdf_contents
          /\ order' = order
          /\ pc' = pc
          /\ Cardinality({i \in DOMAIN fut : fut'[i] # fut[i]}) = 1
    /\ \A i \in DOMAIN fut : fut[i].st = "done" => fut'[i] = fut[i]
    /\ pdf_contents' # pdf_contents =>
          /\ pc = "collect"
          /\ fut' = fut
          /\ Len(pdf_contents') = Len(pdf_contents) + 1
          /\ SubSeq(pdf_contents', 1, Len(pdf_contents)) = pdf_contents
          /\ \E i \in Done \ Range(order) :
                /\ order' = Append(order, i)
                /\ pdf_contents'[Len(pdf_contents')].file_name = pdf_files[i]

\* C31: no data race on results.  Worker threads only run the reader: a worker
\* step changes its own future and neither the result list nor any other
\* future; the result list is appended to only by the calling thread in the
\* collect loop, at most once per completed future, so no interleaving of the
\* workers loses or duplicates an appended result.
C31_NoDataRaceOnResults == []C31_OncePerFuture /\ [][C31_SingleConsumerStep]_vars

\* the consumer has appended a result while other workers are still reading
\* and a further completed future waits to be yielded
C31_Witness ==
    /\ entry = "read_pdfs_concurrently"
    /\ pc = "collect"
    /\ max_workers = 2
    /\ Len(pdf_files) = 3
    /\ Len(order) = 1
    /\ Len(pdf_contents) = 1
    /\ Cardinality(Running) = 1
    /\ Done \ Range(order) # {}

(***************************************************************************)
(* process_pdfs with its read stage replaced: the name                     *)
(* read_pdfs_concurrently is bound to a callable that returns a list of    *)
(* entries or raises (the tests of process_pdfs bind it to a mock).  The   *)
(* handlers of process_pdfs around the call are those of ExecutorExit.     *)
(***************************************************************************)
\* the lists a replaced read stage returns: an entry per path, with a text
\* or None as content
PatchedContents == {Str(ExpectedKeyword), NoneVal}
PatchedResults(files) ==
    {[i \in 1..Len(files) |-> [file_name |-> files[i], content |-> c[i]]] :
        c \in [1..Len(files) -> PatchedContents]}
\* the exceptions a replaced read stage raises
PatchedRaises == {"PDFProcessingError", "ValueError"}

\* pdf_contents = read_pdfs_concurrently(pdf_files, max_workers=4) returns r
ReadStageReturns(r) ==
    /\ entry = "process_pdfs"
    /\ pc = "call_ingest"
    /\ pdf_contents' = r
    /\ pc' = "collect"
    /\ UNCHANGED <<entry, exc, disk, pdf_files, max_workers, submitted, fut, order, aggVars,
                   log, rdVars, valVars, hung, clVars, stage_exc>>

\* read_pdfs_concurrently(pdf_files, max_workers=4) raises e
ReadStageRaises(e) ==
    /\ entry = "process_pdfs"
    /\ pc = "call_ingest"
    /\ pc' = "unwind"
    /\ exc' = e
    /\ stage_exc' = e
    /\ UNCHANGED <<entry, disk, ingestVars, aggVars, log, rdVars, valVars, hung, clVars>>

PatchedNext ==
    \/ GetPdfFiles
    \/ \E r \in PatchedResults(pdf_files) : ReadStageReturns(r)
    \/ \E e \in PatchedRaises : ReadStageRaises(e)
    \/ ExecutorExit
    \/ \E ok \in BOOLEAN : Mkdir(ok)
    \/ \E img \in ImageOutcomes : AggregateItem(img)
    \/ \E env \in SaveOutcomes : SaveAllData(env)
    \/ NothingToSave

PatchedSpec == Init /\ [][PatchedNext]_vars

\* C33: when the read stage has raised PDFProcessingError, process_pdfs logs
\* the error and returns normally: it raises nothing, creates no output
\* directory, validates no item and persists nothing.
C33_ReadStageErrorLoggedAndReturned ==
    (entry = "process_pdfs" /\ stage_exc = "PDFProcessingError" /\ pc # "unwind") =>
        /\ pc = "done"
        /\ exc = ""
        /\ LogEntry("ERROR", "Error processing PDFs", 0) \in log
        /\ ~mkdir_done
        /\ agg_k = 0
        /\ all_data = <<>>
        /\ save_calls = 0

\* C34: the records of one run identify their source documents: the paths of
\* a batch being distinct, any two records of all_data carry distinct
\* file_name values.
C34_RecordsIdentifySources ==
    (entry = "process_pdfs" /\ Injective(pdf_files)) =>
        \A j, k \in DOMAIN all_data : j # k => all_data[j].file_name # all_data[k].file_name

(***************************************************************************)
(* main.clean_text: one call, and a second call on what it returned.  A    *)
(* character outside ASCII is written by the name of its code point.       *)
(***************************************************************************)
MaxText == 4

\* U+00E9, a letter outside \x00-\x7F that is not whitespace
EAcute == "U+00E9"
NonAscii == {EAcute}

RECURSIVE DropNonAscii(_)
\* s without its leading run of non-ASCII characters
DropNonAscii(s) ==
    IF s # <<>> /\ Head(s) \in NonAscii THEN DropNonAscii(Tail(s)) ELSE s

RECURSIVE CollapseWhitespace(_)
\* re.sub(r'\s+', ' ', s): every maximal run of whitespace becomes one space
CollapseWhitespace(s) ==
    IF s = <<>> THEN <<>>
    ELSE IF Head(s) \in Whitespace THEN <<" ">> \o CollapseWhitespace(LStrip(s))
    ELSE <<Head(s)>> \o CollapseWhitespace(Tail(s))

RECURSIVE ReplaceNonAscii(_)
\* re.sub(r'[^\x00-\x7F]+', ' ', s): every maximal run of non-ASCII
\* characters becomes one space
ReplaceNonAscii(s) ==
    IF s = <<>> THEN <<>>
    ELSE IF Head(s) \in NonAscii THEN <<" ">> \o ReplaceNonAscii(DropNonAscii(s))
    ELSE <<Head(s)>> \o ReplaceNonAscii(Tail(s))

\* main.clean_text: strip, collapse whitespace, replace non-ASCII, in this order
clean_text(content) == ReplaceNonAscii(CollapseWhitespace(Strip(content)))

CleanAlphabet == {" ", "\n", "a", EAcute}
CleanInputs == SeqsUpTo(CleanAlphabet, MaxText)

\* content = clean_text(content)
CleanText ==
    /\ pc = "call_clean"
    /\ cl_res' = Returned(clean_text(cl_in))
    /\ pc' = "cleaned"
    /\ UNCHANGED <<entry, exc, disk, ingestVars, aggVars, log, rdVars, valVars, hung,
                   cl_in, cl_again, stage_exc>>

\* clean_text(content) applied to the content it returned
CleanAgain ==
    /\ pc = "cleaned"
    /\ cl_again' = Returned(clean_text(cl_res.text))
    /\ pc' = "recleaned"
    /\ UNCHANGED <<entry, exc, disk, ingestVars, aggVars, log, rdVars, valVars, hung,
                   cl_in, cl_res, stage_exc>>

CleanerInit ==
    /\ entry = "clean_text"
    /\ pc = "call_clean"
    /\ exc = ""
    /\ disk = [exists |-> FALSE, files |-> <<>>]
    /\ pdf_files = <<>>
    /\ max_workers = 0
    /\ submitted = 0
    /\ fut = <<>>
    /\ order = <<>>
    /\ pdf_contents = <<>>
    /\ IdleAgg
    /\ out_file = [state |-> "absent", data |-> <<>>]
    /\ log = {}
    /\ IdleReader
    /\ IdleValidator
    /\ hung = 0
    /\ cl_in \in CleanInputs
    /\ cl_res = NoRes
    /\ cl_again = NoRes
    /\ stage_exc = ""

CleanerNext == CleanText \/ CleanAgain

CleanerSpec == CleanerInit /\ [][CleanerNext]_vars

\* C35: for every input, clean_text returns a text without leading or
\* trailing whitespace, in which every run of whitespace is a single space and
\* no character is outside ASCII; clean_text applied to that text returns it
\* unchanged.
C35_CleanTextNormalises ==
    pc # "call_clean" =>
        LET t == cl_res.text IN
        /\ t # <<>> => (t[1] \notin Whitespace /\ t[Len(t)] \notin Whitespace)
        /\ \A i \in 1..Len(t) : t[i] \in Whitespace =>
              /\ t[i] = " "
              /\ i < Len(t) => t[i + 1] \notin Whitespace
        /\ \A i \in 1..Len(t) : t[i] \notin NonAscii
        /\ pc = "recleaned" => cl_again.text = t

====
